---- MODULE Spec2Model ----
(***************************************************************************)
(* Lucky-Lotto contracts: the instant lottery (src/instant_lotto.rs), the  *)
(* weekly 7-number lottery (src/super_lotto.rs) and the hourly 3D lottery  *)
(* (src/three_lotto.rs), each an Anchor program over one lottery account   *)
(* and one lottery token account.                                          *)
(*                                                                         *)
(* One instruction is one action.  An instruction that returns Err leaves  *)
(* every account as it was (the transaction is rolled back), so a handler  *)
(* is an operator from the accounts before the call to an outcome (error   *)
(* code, accounts as the handler left them, tokens moved), and the action  *)
(* commits the outcome only when the error code is "Ok".                   *)
(***************************************************************************)
EXTENDS Integers, Sequences, FiniteSets, TLC

VARIABLES
    program,        \* which of the three programs this instance runs
    now,            \* Clock::get()?.unix_timestamp
    lottery,        \* the lottery account (Lottery / LotteryState)
    token_account,  \* amount held by the lottery token account
    accrued,        \* total liability accrued by successful instructions
    paid,           \* total tokens moved out of the lottery token account
    steps,          \* instructions that succeeded and changed the ledger
    last            \* the last instruction: name, arguments, error code

vars == <<program, now, lottery, token_account, accrued, paid, steps, last>>

-----------------------------------------------------------------------------
(* Bounds of the model *)

\* Stand-in for u64::MAX: TLC's integers are 32 bits wide, and the largest
\* intermediate product of play is amount * multiplier * 101.
U64_MAX == 60000
\* Instructions per instance that change the ledger.
MaxOps == 3
\* Days (weekly) and hours (3D) of clock time covered.
MaxDay == 1
MaxHour == 1

-----------------------------------------------------------------------------
(* Rust integer arithmetic *)

\* i64 division truncates toward zero
RustDiv(a, b) == IF a >= 0 THEN a \div b ELSE -((-a) \div b)
RustRem(a, b) == a - b * RustDiv(a, b)

Some(x) == <<x>>
None == <<>>
IsSome(o) == Len(o) = 1
Unwrap(o) == o[1]

checked_add(a, b) == IF a + b > U64_MAX THEN None ELSE Some(a + b)
checked_sub(a, b) == IF a < b THEN None ELSE Some(a - b)
checked_mul(a, b) == IF a * b > U64_MAX THEN None ELSE Some(a * b)
checked_div(a, b) == IF b = 0 THEN None ELSE Some(a \div b)
\* .and_then(|v| v.checked_sub(b)) and the like on an Option
and_then_checked_sub(o, b) == IF IsSome(o) THEN checked_sub(Unwrap(o), b) ELSE None
and_then_checked_mul(o, b) == IF IsSome(o) THEN checked_mul(Unwrap(o), b) ELSE None
and_then_checked_div(o, b) == IF IsSome(o) THEN checked_div(Unwrap(o), b) ELSE None
\* u64 `+=` without overflow checks wraps
wrapping_add(a, b) == (a + b) % (U64_MAX + 1)

-----------------------------------------------------------------------------
(* Outcomes of a handler *)

\* err: the error code ("Ok" on success); acct: the lottery account as the
\* handler left it; moved_in / moved_out: tokens moved into / out of the
\* lottery token account by the token::transfer calls that succeeded.
Outcome(e, l, tin, tout) == [err |-> e, acct |-> l, moved_in |-> tin, moved_out |-> tout]

\* SPL token transfer out of the lottery token account holding `balance`
TokenDebitOk(balance, amount, accepted) == accepted /\ amount <= balance

-----------------------------------------------------------------------------
(* src/instant_lotto.rs *)

\* get_number with the boundary compared inclusively
RECURSIVE get_number_scan_inclusive(_, _, _)
get_number_scan_inclusive(i, random, weight_ranges) ==
    IF i > 5 THEN 5
    ELSE IF random <= weight_ranges[i] THEN i
    ELSE get_number_scan_inclusive(i + 1, random, weight_ranges)

\* the scan of get_number from the i-th range on (i is 1-based here)
RECURSIVE get_number_scan(_, _, _)
get_number_scan(i, random, weight_ranges) ==
    IF i > 5 THEN 5
    ELSE IF random < weight_ranges[i] THEN i
    ELSE get_number_scan(i + 1, random, weight_ranges)

get_number(random, weight_ranges) == get_number_scan(1, random, weight_ranges)

instant_initialize(min_bet) ==
    [ min_bet       |-> min_bet,
      locked        |-> FALSE,
      total_weight  |-> 10000,
      weight_ranges |-> <<4660, 7627, 8858, 9578, 10000>>,
      multipliers   |-> <<2, 5, 10, 50, 100>>,
      pool_amount   |-> 0,
      play_times    |-> 0,
      prize_amount  |-> 0 ]

\* numbers: the three tier indices of a play whose hash slices are `randoms`
play_numbers(l, randoms) ==
    [i \in 1..3 |-> get_number(randoms[i] % l.total_weight, l.weight_ranges)]

play_win_multiplier(l, numbers) ==
    IF numbers[1] = numbers[2] /\ numbers[2] = numbers[3]
    THEN l.multipliers[numbers[1]]
    ELSE 0

\* the prize with the division by 100 done before the multiplication by 101
play_total_prize_div_first(amount, win_multiplier) ==
    and_then_checked_mul(
        and_then_checked_div(checked_mul(amount, win_multiplier), 100), 101)
\* the prize with unchecked multiplications, which wrap
play_total_prize_wrapping(amount, win_multiplier) ==
    Some(((amount * win_multiplier * 101) % (U64_MAX + 1)) \div 100)
play_total_prize(amount, win_multiplier) ==
    and_then_checked_div(
        and_then_checked_mul(checked_mul(amount, win_multiplier), 101), 100)

\* the pool credited net of a 1% cut
play_pool_amount_net(l, amount) == checked_add(l.pool_amount, amount - (amount \div 100))
\* lottery.pool_amount.checked_add(amount)
play_pool_amount(l, amount) == checked_add(l.pool_amount, amount)

\* play(ctx, amount, uuid); randoms are the three 8-byte slices of the hash,
\* transfer_ok whether the player's token transfer goes through
play(l, balance, amount, randoms, transfer_ok) ==
    IF l.locked THEN Outcome("LotteryLocked", l, 0, 0)
    ELSE IF ~(amount >= l.min_bet) THEN Outcome("BetTooSmall", l, 0, 0)
    ELSE IF ~(transfer_ok /\ balance + amount <= U64_MAX)
         THEN Outcome("TokenTransferFailed", l, 0, 0)
    ELSE IF ~IsSome(play_pool_amount(l, amount))
         THEN Outcome("ArithmeticOverflow", l, amount, 0)
    ELSE LET l1 == [l EXCEPT !.pool_amount = Unwrap(play_pool_amount(l, amount))] IN
    IF ~IsSome(checked_add(l1.play_times, 1))
         THEN Outcome("ArithmeticOverflow", l1, amount, 0)
    ELSE LET l2 == [l1 EXCEPT !.play_times = Unwrap(checked_add(l1.play_times, 1))] IN
    IF l2.total_weight = 0 THEN Outcome("Panic", l2, amount, 0)
    ELSE LET numbers == play_numbers(l2, randoms)
             win_multiplier == play_win_multiplier(l2, numbers)
             total_prize == play_total_prize(amount, win_multiplier) IN
    IF win_multiplier > 0
    THEN IF ~IsSome(total_prize) THEN Outcome("ArithmeticOverflow", l2, amount, 0)
         ELSE IF ~IsSome(checked_add(l2.prize_amount, Unwrap(total_prize)))
              THEN Outcome("ArithmeticOverflow", l2, amount, 0)
         ELSE Outcome("Ok",
                      [l2 EXCEPT !.prize_amount =
                           Unwrap(checked_add(l2.prize_amount, Unwrap(total_prize)))],
                      amount, 0)
    ELSE Outcome("Ok", l2, amount, 0)

\* emit!(PlayEvent { player, amount, numbers, win_multiplier }) of a play that
\* got as far as the event
play_event(l, amount, randoms) ==
    LET numbers == play_numbers(l, randoms)
    IN [amount |-> amount, numbers |-> numbers,
        win_multiplier |-> play_win_multiplier(l, numbers)]

\* the total compared with the pool where the liability is meant
claim_covered_by_pool(l, total_amount) == l.pool_amount >= total_amount
\* require!(lottery.prize_amount >= total_amount, InsufficientPrize)
claim_covered(l, total_amount) == l.prize_amount >= total_amount

\* the debit of the prize alone, the fee left out
claim_debit_prize_only(x, prize_amount, fee_amount) == checked_sub(x, prize_amount)
\* x.checked_sub(prize_amount).and_then(|amount| amount.checked_sub(fee_amount))
claim_debit(x, prize_amount, fee_amount) ==
    and_then_checked_sub(checked_sub(x, prize_amount), fee_amount)

\* claim_prize(ctx, prize_amount, fee_amount, timestamp); accepted: whether
\* the token program accepts the two transfers (accounts valid, not frozen)
claim_prize(l, balance, clock, prize_amount, fee_amount, timestamp, accepted) ==
    IF ~(l.prize_amount > 0) THEN Outcome("InsufficientPrize", l, 0, 0)
    ELSE IF ~(clock - timestamp < 300) THEN Outcome("SignatureExpired", l, 0, 0)
    ELSE IF ~IsSome(checked_add(prize_amount, fee_amount))
         THEN Outcome("ArithmeticOverflow", l, 0, 0)
    ELSE LET total_amount == Unwrap(checked_add(prize_amount, fee_amount)) IN
    IF ~claim_covered(l, total_amount) THEN Outcome("InsufficientPrize", l, 0, 0)
    ELSE IF ~TokenDebitOk(balance, prize_amount, accepted)
         THEN Outcome("TokenTransferFailed", l, 0, 0)
    ELSE IF ~TokenDebitOk(balance - prize_amount, fee_amount, accepted)
         THEN Outcome("TokenTransferFailed", l, 0, prize_amount)
    ELSE LET pool == claim_debit(l.pool_amount, prize_amount, fee_amount) IN
    IF ~IsSome(pool) THEN Outcome("ArithmeticOverflow", l, 0, total_amount)
    ELSE LET l1 == [l EXCEPT !.pool_amount = Unwrap(pool)]
             prize == claim_debit(l1.prize_amount, prize_amount, fee_amount) IN
    IF ~IsSome(prize) THEN Outcome("ArithmeticOverflow", l1, 0, total_amount)
    ELSE Outcome("Ok", [l1 EXCEPT !.prize_amount = Unwrap(prize)], 0, total_amount)

\* set_locked(ctx, locked, total_weight, weight_ranges, multipliers)
set_locked(l, locked, total_weight, weight_ranges, multipliers) ==
    LET l1 == IF IsSome(locked) THEN [l EXCEPT !.locked = Unwrap(locked)] ELSE l
        l2 == IF IsSome(total_weight)
              THEN [l1 EXCEPT !.total_weight = Unwrap(total_weight)] ELSE l1
        l3 == IF IsSome(weight_ranges)
              THEN [l2 EXCEPT !.weight_ranges = Unwrap(weight_ranges)] ELSE l2
        l4 == IF IsSome(multipliers)
              THEN [l3 EXCEPT !.multipliers = Unwrap(multipliers)] ELSE l3
    IN Outcome("Ok", l4, 0, 0)

-----------------------------------------------------------------------------
(* src/super_lotto.rs *)

super_LOCK_DURATION == 600
DRAW_START_TIME == 0
DRAW_END_TIME == 600
SECONDS_PER_DAY == 86400

super_initialize(min_purchase_amount) ==
    [ last_draw_time      |-> 0,
      is_locked           |-> FALSE,
      min_purchase_amount |-> min_purchase_amount,
      last_draw_numbers   |-> <<0, 0, 0, 0, 0, 0, 0>>,
      last_prize_amount   |-> 0 ]

\* the loop over the six red balls without the test for a repeated number
RECURSIVE super_validate_reds_allowing_repeats(_, _, _)
super_validate_reds_allowing_repeats(i, numbers, used_reds) ==
    IF i > 6 THEN TRUE
    ELSE IF numbers[i] < 1 \/ numbers[i] > 33 THEN FALSE
    ELSE super_validate_reds_allowing_repeats(i + 1, numbers, used_reds)

\* the loop over the six red balls, from the i-th on, with used_reds so far
RECURSIVE super_validate_reds(_, _, _)
super_validate_reds(i, numbers, used_reds) ==
    IF i > 6 THEN TRUE
    ELSE IF numbers[i] < 1 \/ numbers[i] > 33 \/ numbers[i] \in used_reds THEN FALSE
    ELSE super_validate_reds(i + 1, numbers, used_reds \cup {numbers[i]})

super_validate_ticket_numbers(numbers) ==
    IF ~super_validate_reds(1, numbers, {}) THEN FALSE
    ELSE numbers[7] >= 1 /\ numbers[7] <= 16

\* the collision step taken once (an `if` for the `while`)
super_next_free_once(val, used_reds) ==
    IF val \in used_reds THEN (val % 33) + 1 ELSE val

\* while used_reds.contains(&val) { val = (val % 33) + 1; }
RECURSIVE super_next_free(_, _)
super_next_free(val, used_reds) ==
    IF val \in used_reds THEN super_next_free((val % 33) + 1, used_reds) ELSE val

\* the loop over slots i..6 (1-based), numbers and used_reds so far
RECURSIVE super_fill_reds(_, _, _, _)
super_fill_reds(i, random_value, numbers, used_reds) ==
    IF i > 6 THEN numbers
    ELSE LET val == super_next_free((random_value[i] % 33) + 1, used_reds) IN
         super_fill_reds(i + 1, random_value, [numbers EXCEPT ![i] = val],
                         used_reds \cup {val})

\* the mapping with the seventh number kept apart from the six red ones
convert_random_to_numbers_blue_distinct(random_value) ==
    LET numbers == super_fill_reds(1, random_value, <<0, 0, 0, 0, 0, 0, 0>>, {})
    IN [numbers EXCEPT ![7] =
           super_next_free((random_value[7] % 16) + 1, {numbers[i] : i \in 1..6})]

convert_random_to_numbers(random_value) ==
    LET numbers == super_fill_reds(1, random_value, <<0, 0, 0, 0, 0, 0, 0>>, {})
    IN [numbers EXCEPT ![7] = (random_value[7] % 16) + 1]

super_seconds_from_day_start(current_timestamp) ==
    LET day_start == RustDiv(current_timestamp, SECONDS_PER_DAY) * SECONDS_PER_DAY
    IN current_timestamp - day_start

\* the lock period counted as over at exactly LOCK_DURATION
super_lock_elapsed_inclusive(l, clock) ==
    LET time_since_last_draw == clock - l.last_draw_time
    IN time_since_last_draw >= super_LOCK_DURATION
\* time_since_last_draw > LOCK_DURATION
super_lock_elapsed(l, clock) ==
    LET time_since_last_draw == clock - l.last_draw_time
    IN time_since_last_draw > super_LOCK_DURATION

\* buy_ticket without `lottery.is_locked = false` after the lock test
super_buy_ticket_keeping_lock(l, balance, clock, numbers, amount, buyer_mint_ok, transfer_ok) ==
    IF ~buyer_mint_ok THEN Outcome("InvalidTokenMint", l, 0, 0)
    ELSE IF l.is_locked /\ ~super_lock_elapsed(l, clock)
         THEN Outcome("LotteryLocked", l, 0, 0)
    ELSE IF ~(amount >= l.min_purchase_amount) THEN Outcome("InsufficientAmount", l, 0, 0)
    ELSE IF ~super_validate_ticket_numbers(numbers)
         THEN Outcome("InvalidTicketNumbers", l, 0, 0)
    ELSE IF ~(transfer_ok /\ balance + amount <= U64_MAX)
         THEN Outcome("TokenTransferFailed", l, 0, 0)
    ELSE Outcome("Ok", l, amount, 0)

super_buy_ticket(l, balance, clock, numbers, amount, buyer_mint_ok, transfer_ok) ==
    IF ~buyer_mint_ok THEN Outcome("InvalidTokenMint", l, 0, 0)
    ELSE IF l.is_locked /\ ~super_lock_elapsed(l, clock)
         THEN Outcome("LotteryLocked", l, 0, 0)
    ELSE LET l1 == IF l.is_locked THEN [l EXCEPT !.is_locked = FALSE] ELSE l IN
    IF ~(amount >= l1.min_purchase_amount) THEN Outcome("InsufficientAmount", l1, 0, 0)
    ELSE IF ~super_validate_ticket_numbers(numbers)
         THEN Outcome("InvalidTicketNumbers", l1, 0, 0)
    ELSE IF ~(transfer_ok /\ balance + amount <= U64_MAX)
         THEN Outcome("TokenTransferFailed", l1, 0, 0)
    ELSE Outcome("Ok", l1, amount, 0)

\* the draw window with its end excluded
super_in_draw_time_exclusive(current_timestamp) ==
    LET seconds_from_day_start == super_seconds_from_day_start(current_timestamp)
    IN seconds_from_day_start >= DRAW_START_TIME /\ seconds_from_day_start < DRAW_END_TIME
\* the draw window with its end not checked
super_in_draw_time_no_end(current_timestamp) ==
    LET seconds_from_day_start == super_seconds_from_day_start(current_timestamp)
    IN seconds_from_day_start >= DRAW_START_TIME
super_in_draw_time(current_timestamp) ==
    LET seconds_from_day_start == super_seconds_from_day_start(current_timestamp)
    IN seconds_from_day_start >= DRAW_START_TIME /\ seconds_from_day_start <= DRAW_END_TIME

\* draw with the lock taken to expire by itself once the lock period is over
super_draw_lock_expiring(l, clock, random_value) ==
    IF ~super_in_draw_time(clock) THEN Outcome("InvalidDrawTime", l, 0, 0)
    ELSE IF l.is_locked /\ ~super_lock_elapsed(l, clock)
         THEN Outcome("AlreadyDrawn", l, 0, 0)
    ELSE Outcome("Ok",
                 [l EXCEPT !.last_draw_time = clock,
                           !.is_locked = TRUE,
                           !.last_draw_numbers = convert_random_to_numbers(random_value)],
                 0, 0)

super_draw(l, clock, random_value) ==
    IF ~super_in_draw_time(clock) THEN Outcome("InvalidDrawTime", l, 0, 0)
    ELSE IF ~(~l.is_locked) THEN Outcome("AlreadyDrawn", l, 0, 0)
    ELSE Outcome("Ok",
                 [l EXCEPT !.last_draw_time = clock,
                           !.is_locked = TRUE,
                           !.last_draw_numbers = convert_random_to_numbers(random_value)],
                 0, 0)

\* lottery.last_prize_amount += prize_amount: panics with overflow checks,
\* wraps without
unchecked_add_assign(l, prize_amount, checks) ==
    IF l.last_prize_amount + prize_amount > U64_MAX /\ checks
    THEN Outcome("Panic", l, 0, 0)
    ELSE Outcome("Ok",
                 [l EXCEPT !.last_prize_amount = wrapping_add(@, prize_amount)], 0, 0)

super_update_prize_amount(l, clock, prize_amount, checks) ==
    IF ~(l.is_locked /\ clock - l.last_draw_time <= super_LOCK_DURATION)
    THEN Outcome("PrizeUpdateWindowClosed", l, 0, 0)
    ELSE IF ~(prize_amount > 0) THEN Outcome("InvalidPrizeAmount", l, 0, 0)
    ELSE unchecked_add_assign(l, prize_amount, checks)

\* the for loop of transfer_token from the i-th transfer on; moved: tokens
\* already moved out by this call; n_accounts: ctx.remaining_accounts.len();
\* fail_at: the leg the token program rejects (0: none); the emit! of each
\* leg computes last_prize_amount - transfer.amount without a check
RECURSIVE transfer_legs(_, _, _, _, _, _, _, _)
transfer_legs(i, l, balance, transfers, moved, n_accounts, fail_at, checks) ==
    IF i > Len(transfers) THEN Outcome("Ok", l, 0, moved)
    ELSE IF i > n_accounts THEN Outcome("InvalidTokenMint", l, 0, moved)
    ELSE IF ~TokenDebitOk(balance - moved, transfers[i], fail_at # i)
         THEN Outcome("TokenTransferFailed", l, 0, moved)
    ELSE IF checks /\ l.last_prize_amount < transfers[i]
         THEN Outcome("Panic", l, 0, moved + transfers[i])
    ELSE transfer_legs(i + 1, l, balance, transfers, moved + transfers[i],
                       n_accounts, fail_at, checks)

\* the ledger lowered by what each leg moved, leg by leg
transfer_debit_per_leg(l, total_amount, moved) ==
    IF ~IsSome(checked_sub(l.last_prize_amount, moved))
    THEN Outcome("ArithmeticError", l, 0, moved)
    ELSE Outcome("Ok",
                 [l EXCEPT !.last_prize_amount = Unwrap(checked_sub(@, moved))],
                 0, moved)

\* the ledger update after the loop
transfer_debit(l, total_amount, moved) ==
    IF ~IsSome(checked_sub(l.last_prize_amount, total_amount))
    THEN Outcome("ArithmeticError", l, 0, moved)
    ELSE Outcome("Ok",
                 [l EXCEPT !.last_prize_amount = Unwrap(checked_sub(@, total_amount))],
                 0, moved)

\* transfer_token(ctx, transfers, total_amount), the same in both programs
transfer_token(l, balance, transfers, total_amount, n_accounts, fail_at, checks) ==
    IF ~(total_amount > 0) THEN Outcome("InsufficientPrizeAmount", l, 0, 0)
    ELSE IF ~(l.last_prize_amount >= total_amount)
         THEN Outcome("InsufficientPrizeAmount", l, 0, 0)
    ELSE LET legs == transfer_legs(1, l, balance, transfers, 0, n_accounts, fail_at, checks)
    IN IF legs.err # "Ok" THEN legs
       ELSE transfer_debit(l, total_amount, legs.moved_out)

-----------------------------------------------------------------------------
(* src/three_lotto.rs *)

SECONDS_PER_MINUTE == 60
MINUTES_PER_HOUR == 60
DRAW_WINDOW_MINUTES == 5
MIN_DRAW_INTERVAL == 55 * SECONDS_PER_MINUTE
three_LOCK_DURATION == 5 * SECONDS_PER_MINUTE
NUMBERS_COUNT == 3
MAX_NUMBER == 33
MIN_NUMBER == 1

three_initialize(min_purchase_amount) ==
    [ last_draw_time      |-> 0,
      is_locked           |-> FALSE,
      min_purchase_amount |-> min_purchase_amount,
      last_draw_numbers   |-> [i \in 1..NUMBERS_COUNT |-> 0],
      last_prize_amount   |-> 0 ]

\* the window test with `<` for `<=`
is_in_draw_window_exclusive(current_time) ==
    RustRem(RustDiv(current_time, SECONDS_PER_MINUTE), MINUTES_PER_HOUR)
        < DRAW_WINDOW_MINUTES

is_in_draw_window(current_time) ==
    RustRem(RustDiv(current_time, SECONDS_PER_MINUTE), MINUTES_PER_HOUR)
        <= DRAW_WINDOW_MINUTES

\* the interval test with `>` for `>=`
can_draw_strict(l, current_time) ==
    LET time_since_last_draw == current_time - l.last_draw_time
    IN time_since_last_draw > MIN_DRAW_INTERVAL /\ ~l.is_locked

can_draw(l, current_time) ==
    LET time_since_last_draw == current_time - l.last_draw_time
    IN time_since_last_draw >= MIN_DRAW_INTERVAL /\ ~l.is_locked

three_validate_ticket_numbers(numbers) ==
    \A i \in 1..NUMBERS_COUNT : numbers[i] >= MIN_NUMBER /\ numbers[i] <= MAX_NUMBER

convert_random_to_3d_numbers(random_value) ==
    [i \in 1..NUMBERS_COUNT |-> (random_value[i] % MAX_NUMBER) + 1]

\* the lock test with `>=` for `>`
three_lock_elapsed_inclusive(l, clock) ==
    LET time_since_last_draw == clock - l.last_draw_time
    IN time_since_last_draw >= three_LOCK_DURATION

\* time_since_last_draw > LOCK_DURATION
three_lock_elapsed(l, clock) ==
    LET time_since_last_draw == clock - l.last_draw_time
    IN time_since_last_draw > three_LOCK_DURATION

three_buy_ticket(l, balance, clock, numbers, amount, buyer_mint_ok, transfer_ok) ==
    IF ~(~is_in_draw_window(clock)) THEN Outcome("DrawWindowActive", l, 0, 0)
    ELSE IF ~buyer_mint_ok THEN Outcome("InvalidTokenMint", l, 0, 0)
    ELSE IF l.is_locked /\ ~three_lock_elapsed(l, clock)
         THEN Outcome("Locked", l, 0, 0)
    ELSE LET l1 == IF l.is_locked THEN [l EXCEPT !.is_locked = FALSE] ELSE l IN
    IF ~(amount >= l1.min_purchase_amount) THEN Outcome("InsufficientAmount", l1, 0, 0)
    ELSE IF ~three_validate_ticket_numbers(numbers)
         THEN Outcome("InvalidTicketNumbers", l1, 0, 0)
    ELSE IF ~(transfer_ok /\ balance + amount <= U64_MAX)
         THEN Outcome("TokenTransferFailed", l1, 0, 0)
    ELSE Outcome("Ok", l1, amount, 0)

three_draw(l, clock, random_value) ==
    IF ~is_in_draw_window(clock) THEN Outcome("InvalidDrawTime", l, 0, 0)
    ELSE IF ~can_draw(l, clock) THEN Outcome("DrawTooEarly", l, 0, 0)
    ELSE IF ~(~l.is_locked) THEN Outcome("AlreadyDrawn", l, 0, 0)
    ELSE Outcome("Ok",
                 [l EXCEPT !.last_draw_time = clock,
                           !.is_locked = TRUE,
                           !.last_draw_numbers = convert_random_to_3d_numbers(random_value)],
                 0, 0)

three_update_prize_amount(l, clock, prize_amount, checks) ==
    IF ~(l.is_locked /\ clock - l.last_draw_time <= three_LOCK_DURATION)
    THEN Outcome("PrizeUpdateWindowClosed", l, 0, 0)
    ELSE IF ~(prize_amount > 0) THEN Outcome("InvalidPrizeAmount", l, 0, 0)
    ELSE unchecked_add_assign(l, prize_amount, checks)


-----------------------------------------------------------------------------
(* The environment: clock times and instruction arguments *)

Programs == {"instant_lotto", "super_lotto", "three_lotto"}

\* Clock times around the draw window of each day (weekly), around the draw
\* window and the lock period of each hour (3D), up to the opening of the
\* window that follows the last of them
DayOffsets == {0, 600, 601, 86399}
HourOffsets == {0, 300, 301, 360, 601, 660}
TimePoints(p) ==
    CASE p = "super_lotto" ->
            {d * SECONDS_PER_DAY + o : d \in 0..(MaxDay - 1), o \in DayOffsets}
               \cup {MaxDay * SECONDS_PER_DAY}
      [] p = "three_lotto" ->
            {h * 3600 + o : h \in 1..MaxHour, o \in HourOffsets}
               \cup {(MaxHour + 1) * 3600}
      [] OTHER -> {0, 300}
FirstTime(p) == CHOOSE t \in TimePoints(p) : \A u \in TimePoints(p) : t <= u

\* instant: initialize(min_bet), play(amount, uuid) with the three hash
\* slices, claim_prize(prize_amount, fee_amount, timestamp) with the age of
\* the timestamp, set_locked(locked, total_weight, weight_ranges, multipliers)
MinBet == 50
PlayAmounts == {1, 50, 100}
PlayRandoms == { <<0, 0, 0>>, <<4660, 14660, 4660>>, <<0, 4660, 0>>, <<9999, 9999, 9999>> }
ClaimAmounts == { <<0, 0>>, <<60, 1>>, <<100, 1>>, <<U64_MAX, 1>> }
ClaimAges == {-1, 299, 300}
SetLockedArgs ==
    { <<Some(TRUE), None, None, None>>,
      <<Some(FALSE), None, None, None>>,
      <<None, Some(10), Some(<<2, 4, 6, 8, 10>>), Some(<<0, 1, 1, 1, 255>>)>>,
      <<None, Some(0), None, None>> }

\* weekly and 3D: initialize(min_purchase_amount), buy_ticket(numbers, amount),
\* draw(uuid) with the bytes of the hash that the number mapping reads,
\* update_prize_amount(prize_amount), transfer_token(transfers, total_amount)
MinPurchase == 2
BuyAmounts == {1, 2, 4}
SuperTickets == { <<1, 2, 3, 4, 5, 6, 7>>, <<1, 1, 3, 4, 5, 6, 7>> }
ThreeTickets == { <<1, 17, 33>>, <<1, 2, 34>> }
\* the tickets above that follow the rules of their lottery
ValidTickets == { <<1, 2, 3, 4, 5, 6, 7>>, <<1, 17, 33>> }
DrawDigests == { <<32, 65, 32, 0, 1, 255, 255>> }
PrizeAmounts == {0, 2, U64_MAX}
\* <<transfers, total_amount>>
TransferArgs == { <<<<2>>, 2>>, <<<<1, 1>>, 2>>, <<<<2, 2>>, 2>>, <<<<2>>, 4>>, <<<<2>>, 0>> }
\* what the token program and the account list do to an instruction: nothing,
\* a token account of the wrong mint or a missing recipient account, a
\* transfer the token program rejects
Faults == {"none", "account", "transfer"}

-----------------------------------------------------------------------------
(* The instructions as actions.  overflow_checks: whether the build panics on
   an overflow of unchecked arithmetic (the profile's overflow-checks) or
   wraps; the source does not fix it. *)

\* An instruction whose writes to the lottery account stay when it fails
Commit_keeping_account(op, args, o, accrue, counted) ==
    /\ lottery' = o.acct
    /\ token_account' = IF o.err = "Ok"
                        THEN token_account + o.moved_in - o.moved_out
                        ELSE token_account
    /\ accrued' = IF o.err = "Ok" THEN accrued + accrue ELSE accrued
    /\ paid' = IF o.err = "Ok" THEN paid + o.moved_out ELSE paid
    /\ steps' = IF o.err = "Ok" /\ counted THEN steps + 1 ELSE steps
    /\ last' = [op |-> op, err |-> o.err, args |-> args]
    /\ UNCHANGED <<program, now>>

\* An instruction whose token transfers stay made when it fails later on
Commit_keeping_transfers(op, args, o, accrue, counted) ==
    /\ lottery' = IF o.err = "Ok" THEN o.acct ELSE lottery
    /\ token_account' = token_account + o.moved_in - o.moved_out
    /\ accrued' = IF o.err = "Ok" THEN accrued + accrue ELSE accrued
    /\ paid' = paid + o.moved_out
    /\ steps' = IF o.err = "Ok" /\ counted THEN steps + 1 ELSE steps
    /\ last' = [op |-> op, err |-> o.err, args |-> args]
    /\ UNCHANGED <<program, now>>

\* An instruction that returned `o`: a failed instruction changes no account
Commit(op, args, o, accrue, counted) ==
    /\ lottery' = IF o.err = "Ok" THEN o.acct ELSE lottery
    /\ token_account' = IF o.err = "Ok"
                        THEN token_account + o.moved_in - o.moved_out
                        ELSE token_account
    /\ accrued' = IF o.err = "Ok" THEN accrued + accrue ELSE accrued
    /\ paid' = IF o.err = "Ok" THEN paid + o.moved_out ELSE paid
    /\ steps' = IF o.err = "Ok" /\ counted THEN steps + 1 ELSE steps
    /\ last' = [op |-> op, err |-> o.err, args |-> args]
    /\ UNCHANGED <<program, now>>

Tick ==
    /\ \E t \in TimePoints(program) : t > now /\ now' = t
    /\ last' = [op |-> "tick", err |-> "Ok", args |-> <<>>]
    /\ UNCHANGED <<program, lottery, token_account, accrued, paid, steps>>

Play ==
    /\ program = "instant_lotto"
    /\ steps < MaxOps
    /\ \E amount \in PlayAmounts, randoms \in PlayRandoms, transfer_ok \in BOOLEAN :
          LET o == play(lottery, token_account, amount, randoms, transfer_ok)
          IN Commit("play",
                    IF o.err = "Ok" THEN play_event(lottery, amount, randoms)
                                    ELSE [amount |-> amount],
                    o, o.acct.prize_amount - lottery.prize_amount, TRUE)

\* a claim that fails changes no account and is not counted against MaxOps
ClaimPrize ==
    /\ program = "instant_lotto"
    /\ \E amounts \in ClaimAmounts, age \in ClaimAges, accepted \in BOOLEAN :
          LET o == claim_prize(lottery, token_account, now, amounts[1], amounts[2],
                               now - age, accepted)
          IN /\ (steps < MaxOps \/ o.err # "Ok")
             /\ Commit("claim_prize",
                       [prize_amount |-> amounts[1], fee_amount |-> amounts[2],
                        timestamp |-> now - age],
                       o, 0, TRUE)

SetLocked ==
    /\ program = "instant_lotto"
    /\ \E a \in SetLockedArgs :
          Commit("set_locked", [locked |-> a[1]],
                 set_locked(lottery, a[1], a[2], a[3], a[4]), 0, FALSE)

buy_ticket(l, balance, clock, numbers, amount, buyer_mint_ok, transfer_ok) ==
    IF program = "super_lotto"
    THEN super_buy_ticket(l, balance, clock, numbers, amount, buyer_mint_ok, transfer_ok)
    ELSE three_buy_ticket(l, balance, clock, numbers, amount, buyer_mint_ok, transfer_ok)

BuyTicket ==
    /\ program \in {"super_lotto", "three_lotto"}
    /\ steps < MaxOps
    /\ \E numbers \in (IF program = "super_lotto" THEN SuperTickets ELSE ThreeTickets),
          amount \in BuyAmounts, fault \in Faults :
          Commit("buy_ticket",
                 [amount |-> amount,
                  valid |-> /\ amount >= MinPurchase
                            /\ numbers \in ValidTickets
                            /\ fault = "none"],
                 buy_ticket(lottery, token_account, now, numbers, amount,
                            fault # "account", fault # "transfer"),
                 0, TRUE)

draw(l, clock, random_value) ==
    IF program = "super_lotto"
    THEN super_draw(l, clock, random_value)
    ELSE three_draw(l, clock, random_value)

Draw ==
    /\ program \in {"super_lotto", "three_lotto"}
    /\ \E random_value \in DrawDigests :
          Commit("draw", <<>>,
                 draw(lottery, now, random_value), 0, FALSE)

update_prize_amount(l, clock, prize_amount, checks) ==
    IF program = "super_lotto"
    THEN super_update_prize_amount(l, clock, prize_amount, checks)
    ELSE three_update_prize_amount(l, clock, prize_amount, checks)

UpdatePrizeAmount ==
    /\ program \in {"super_lotto", "three_lotto"}
    /\ steps < MaxOps
    /\ \E prize_amount \in PrizeAmounts, overflow_checks \in BOOLEAN :
          Commit("update_prize_amount", [prize_amount |-> prize_amount],
                 update_prize_amount(lottery, now, prize_amount, overflow_checks),
                 prize_amount, TRUE)

TransferToken ==
    /\ program \in {"super_lotto", "three_lotto"}
    /\ steps < MaxOps
    /\ \E a \in TransferArgs, fault \in Faults, overflow_checks \in BOOLEAN :
          Commit("transfer_token",
                 [transfers |-> a[1], total_amount |-> a[2], fault |-> fault],
                 transfer_token(lottery, token_account, a[1], a[2],
                                IF fault = "account" THEN Len(a[1]) - 1 ELSE Len(a[1]),
                                IF fault = "transfer" THEN Len(a[1]) ELSE 0,
                                overflow_checks),
                 0, TRUE)

Init ==
    /\ program \in Programs
    /\ now = FirstTime(program)
    /\ lottery = CASE program = "instant_lotto" -> instant_initialize(MinBet)
                   [] program = "super_lotto" -> super_initialize(MinPurchase)
                   [] OTHER -> three_initialize(MinPurchase)
    /\ token_account = 0
    /\ accrued = 0
    /\ paid = 0
    /\ steps = 0
    /\ last = [op |-> "initialize", err |-> "Ok", args |-> <<>>]

Next ==
    \/ Tick
    \/ Play
    \/ ClaimPrize
    \/ SetLocked
    \/ BuyTicket
    \/ Draw
    \/ UpdatePrizeAmount
    \/ TransferToken

Spec == Init /\ [][Next]_vars

\* Each deployed program on its own: the instructions of the instant lottery,
\* and those the weekly and the 3D lottery share
NextInstant ==
    \/ Tick
    \/ Play
    \/ ClaimPrize
    \/ SetLocked

NextDraws ==
    \/ Tick
    \/ BuyTicket
    \/ Draw
    \/ UpdatePrizeAmount
    \/ TransferToken

InitInstant == Init /\ program = "instant_lotto"
InitSuper == Init /\ program = "super_lotto"
InitThree == Init /\ program = "three_lotto"
InitDraws == Init /\ program \in {"super_lotto", "three_lotto"}
SpecInstant == InitInstant /\ [][NextInstant]_vars
SpecSuper == InitSuper /\ [][NextDraws]_vars
SpecThree == InitThree /\ [][NextDraws]_vars
SpecDraws == InitDraws /\ [][NextDraws]_vars

-----------------------------------------------------------------------------
(* The outcome mappings over wide samples of their inputs *)

\* The first play of an instance, its first hash slice any value below
\* SliceCount; the other two slices map to tiers 1 and 5, so the play
\* never wins and the event always shows the tier of the first slice
SliceCount == 20000
PlaySampled ==
    /\ program = "instant_lotto"
    /\ lottery.play_times = 0
    /\ \E v \in 0..(SliceCount - 1) :
          LET randoms == <<v, 0, 9999>>
              o == play(lottery, token_account, MinBet, randoms, TRUE)
          IN Commit("play",
                    [amount |-> MinBet, randoms |-> randoms,
                     numbers |-> play_event(lottery, MinBet, randoms).numbers],
                    o, o.acct.prize_amount - lottery.prize_amount, TRUE)

InitTier == Init /\ program = "instant_lotto"
SpecTier == InitTier /\ [][PlaySampled]_vars

\* The first draw of an instance, the bytes of the hash that the number
\* mapping reads drawn from values around the multiples of 33 and of 16
RedBytes == {0, 32, 33, 65, 255}
BlueBytes == {0, 15, 16, 255}
SampleDigests ==
    IF program = "super_lotto"
    THEN { <<b1, b2, b3, b4, b5, b6, b7>> :
             b1 \in RedBytes, b2 \in RedBytes, b3 \in RedBytes, b4 \in RedBytes,
             b5 \in RedBytes, b6 \in RedBytes, b7 \in BlueBytes }
    ELSE { <<b1, b2, b3>> : b1 \in 0..255, b2 \in RedBytes, b3 \in RedBytes }

DrawSampled ==
    /\ program \in {"super_lotto", "three_lotto"}
    /\ last.op = "initialize"
    /\ \E random_value \in SampleDigests :
          Commit("draw", [random_value |-> random_value],
                 draw(lottery, now, random_value), 0, FALSE)

InitNumbers == Init /\ program \in {"super_lotto", "three_lotto"}
SpecNumbers == InitNumbers /\ [][DrawSampled]_vars

\* A play on an instant lottery that long use has brought near the limits of
\* its counters: min_bet 0, the token account holding the pool, play_times
\* and prize_amount up to u64::MAX.  The stakes are around the largest whose
\* prize fits at multiplier 2, and up to u64::MAX.  (The token account
\* receives every stake the pool counts, so a transfer into it that succeeds
\* leaves room for the stake in pool_amount as well.)
LedgerLevels ==
    { [pool |-> pl, plays |-> pt, prize |-> pz] :
        pl \in {0, 1000},
        pt \in {0, U64_MAX - 1, U64_MAX},
        pz \in {0, U64_MAX - 505, U64_MAX - 504, U64_MAX} }
StakeAmounts == {0, 100, 297, 298, 600, U64_MAX}
StakeRandoms ==
    PlayRandoms \cup { <<8000, 8000, 8000>> }

PlayNearLimits ==
    /\ program = "instant_lotto"
    /\ last.op = "initialize"
    /\ \E amount \in StakeAmounts, randoms \in StakeRandoms, transfer_ok \in BOOLEAN :
          LET o == play(lottery, token_account, amount, randoms, transfer_ok)
          IN Commit("play",
                    [amount |-> amount, randoms |-> randoms,
                     transfer_ok |-> transfer_ok],
                    o, o.acct.prize_amount - lottery.prize_amount, TRUE)

InitNearLimits ==
    /\ program = "instant_lotto"
    /\ now = FirstTime(program)
    /\ \E v \in LedgerLevels :
          /\ lottery = [instant_initialize(0) EXCEPT !.pool_amount = v.pool,
                                                     !.play_times = v.plays,
                                                     !.prize_amount = v.prize]
          /\ token_account = v.pool
    /\ accrued = 0
    /\ paid = 0
    /\ steps = 0
    /\ last = [op |-> "initialize", err |-> "Ok", args |-> <<>>]
SpecNearLimits == InitNearLimits /\ [][PlayNearLimits]_vars

\* The first purchase of an instance, at any clock time, its ticket drawn
\* from a wide sample: weekly, a valid ticket with any two of its seven
\* numbers replaced by bytes around the limits of the ranges and by numbers
\* the ticket already holds; 3D, every combination of such bytes
TicketBytes == {0, 1, 2, 16, 17, 33, 34, 255}
WeeklyBase == <<1, 2, 3, 4, 5, 33, 16>>
SampleTickets ==
    IF program = "super_lotto"
    THEN { [[WeeklyBase EXCEPT ![i] = a] EXCEPT ![j] = b] :
             i \in 1..7, j \in 1..7, a \in TicketBytes, b \in TicketBytes }
    ELSE { <<a, b, c>> : a \in TicketBytes, b \in TicketBytes, c \in TicketBytes }

BuySampled ==
    /\ program \in {"super_lotto", "three_lotto"}
    /\ steps = 0
    /\ last.op # "buy_ticket"
    /\ \E numbers \in SampleTickets, amount \in BuyAmounts, fault \in Faults :
          Commit("buy_ticket",
                 [numbers |-> numbers, amount |-> amount, fault |-> fault],
                 buy_ticket(lottery, token_account, now, numbers, amount,
                            fault # "account", fault # "transfer"),
                 0, TRUE)

NextTickets ==
    \/ Tick
    \/ BuySampled

InitTickets == Init /\ program \in {"super_lotto", "three_lotto"}
SpecTickets == InitTickets /\ [][NextTickets]_vars

-----------------------------------------------------------------------------
(* The instructions with the accounts their callers pass.  Anchor validates
   the accounts of an instruction before its handler runs: a `Signer` account
   must have signed the transaction, and has_one = authority (or the
   constraint of ClaimPrize and AdminAction) compares the key of the
   authority account passed with lottery.authority.  Only `initialize`
   writes lottery.authority, so it is one key for the life of an instance. *)

lottery_authority == "authority"

\* the account passed as authority (or as player / buyer): its key, and
\* whether its holder signed.  Nobody but the authority signs with its key.
Callers ==
    { [key |-> "authority", is_signer |-> TRUE],
      [key |-> "authority", is_signer |-> FALSE],
      [key |-> "player", is_signer |-> TRUE] }

IsAuthority(a) == a.key = lottery_authority /\ a.is_signer

\* the validation with the key of the authority account not compared
admin_accounts_any_signer(l, a, constraint_err, o) ==
    IF ~a.is_signer THEN Outcome("AccountNotSigner", l, 0, 0)
    ELSE o

\* Draw, UpdatePrize, WithdrawSol, TransferToken, ClaimPrize, AdminAction:
\* authority is a signer and its key is lottery.authority, then the handler
admin_accounts(l, a, constraint_err, o) ==
    IF ~a.is_signer THEN Outcome("AccountNotSigner", l, 0, 0)
    ELSE IF ~(a.key = lottery_authority) THEN Outcome(constraint_err, l, 0, 0)
    ELSE o

\* Play, BuyTicket: player / buyer is a signer, whoever it is
purchase_accounts(l, a, o) ==
    IF ~a.is_signer THEN Outcome("AccountNotSigner", l, 0, 0)
    ELSE o

\* withdraw_sol(ctx, amount) on a lottery account holding `lamports`, of
\* which rent_balance must stay; it moves lamports only, which anyone may
\* also send to the account, and touches no field of the lottery
withdraw_sol(l, lamports, rent_balance, amount) ==
    IF ~IsSome(checked_sub(lamports, rent_balance))
    THEN Outcome("InsufficientBalance", l, 0, 0)
    ELSE LET available_balance == Unwrap(checked_sub(lamports, rent_balance)) IN
    IF ~(amount <= available_balance) THEN Outcome("InsufficientBalance", l, 0, 0)
    ELSE Outcome("Ok", l, 0, 0)

\* <<lamports, rent_balance>> of the lottery account
LamportLevels == { <<2, 3>>, <<3, 3>>, <<8, 3>> }
WithdrawAmounts == {0, 5}

PlayBy ==
    /\ program = "instant_lotto"
    /\ steps < MaxOps
    /\ \E a \in Callers, randoms \in { <<0, 0, 0>>, <<0, 4660, 0>> } :
          LET o == purchase_accounts(lottery, a,
                       play(lottery, token_account, 100, randoms, TRUE))
          IN Commit("play", [caller |-> a, amount |-> 100],
                    o, o.acct.prize_amount - lottery.prize_amount, TRUE)

ClaimPrizeBy ==
    /\ program = "instant_lotto"
    /\ \E a \in Callers :
          LET o == admin_accounts(lottery, a, "InvalidAuthority",
                       claim_prize(lottery, token_account, now, 60, 1, now, TRUE))
          IN /\ (steps < MaxOps \/ o.err # "Ok")
             /\ Commit("claim_prize", [caller |-> a], o, 0, TRUE)

SetLockedBy ==
    /\ program = "instant_lotto"
    /\ \E a \in Callers, s \in SetLockedArgs :
          Commit("set_locked", [caller |-> a, locked |-> s[1]],
                 admin_accounts(lottery, a, "ConstraintRaw",
                     set_locked(lottery, s[1], s[2], s[3], s[4])),
                 0, FALSE)

BuyTicketBy ==
    /\ program \in {"super_lotto", "three_lotto"}
    /\ steps < MaxOps
    /\ \E a \in Callers, numbers \in ValidTickets :
          /\ Len(numbers) = Len(lottery.last_draw_numbers)
          /\ Commit("buy_ticket", [caller |-> a, amount |-> MinPurchase],
                    purchase_accounts(lottery, a,
                        buy_ticket(lottery, token_account, now, numbers,
                                   MinPurchase, TRUE, TRUE)),
                    0, TRUE)

DrawBy ==
    /\ program \in {"super_lotto", "three_lotto"}
    /\ \E a \in Callers, random_value \in DrawDigests :
          Commit("draw", [caller |-> a],
                 admin_accounts(lottery, a, "ConstraintHasOne",
                     draw(lottery, now, random_value)),
                 0, FALSE)

UpdatePrizeAmountBy ==
    /\ program \in {"super_lotto", "three_lotto"}
    /\ steps < MaxOps
    /\ \E a \in Callers, overflow_checks \in BOOLEAN :
          Commit("update_prize_amount", [caller |-> a, prize_amount |-> 2],
                 admin_accounts(lottery, a, "ConstraintHasOne",
                     update_prize_amount(lottery, now, 2, overflow_checks)),
                 2, TRUE)

TransferTokenBy ==
    /\ program \in {"super_lotto", "three_lotto"}
    /\ steps < MaxOps
    /\ \E a \in Callers, overflow_checks \in BOOLEAN :
          Commit("transfer_token", [caller |-> a, total_amount |-> 2],
                 admin_accounts(lottery, a, "ConstraintHasOne",
                     transfer_token(lottery, token_account, <<2>>, 2, 1, 0,
                                    overflow_checks)),
                 0, TRUE)

WithdrawSolBy ==
    /\ program \in {"super_lotto", "three_lotto"}
    /\ \E a \in Callers, v \in LamportLevels, amount \in WithdrawAmounts :
          Commit("withdraw_sol", [caller |-> a, amount |-> amount],
                 admin_accounts(lottery, a, "ConstraintHasOne",
                     withdraw_sol(lottery, v[1], v[2], amount)),
                 0, FALSE)

NextSigners ==
    \/ Tick
    \/ PlayBy
    \/ ClaimPrizeBy
    \/ SetLockedBy
    \/ BuyTicketBy
    \/ DrawBy
    \/ UpdatePrizeAmountBy
    \/ TransferTokenBy
    \/ WithdrawSolBy

SpecSigners == Init /\ [][NextSigners]_vars

-----------------------------------------------------------------------------
(* The weekly and the 3D lottery over unbounded time.  The handlers read the
   clock only through its offset in the day (weekly) or the hour (3D) and
   through clock - last_draw_time, and compare the latter with at most 3300
   seconds.  So when the clock passes the last of the time points, it and
   last_draw_time are moved back together by whole periods, and a
   last_draw_time more than one period behind is kept one period behind: the
   state that results has the same future.  The clock visits every time
   point in turn.  Purchases are of amount 0 on a lottery whose minimum
   purchase is 0, so the token account stays as it is; steps counts the
   successful draws, up to MaxOps. *)

Period(p) == IF p = "super_lotto" THEN SECONDS_PER_DAY
             ELSE SECONDS_PER_MINUTE * MINUTES_PER_HOUR
Horizon(p) == CHOOSE t \in TimePoints(p) : \A u \in TimePoints(p) : u <= t
NextPoint(p, t) ==
    CHOOSE u \in TimePoints(p) :
        u > t /\ \A v \in TimePoints(p) : v > t => u <= v

TickLive ==
    LET base == IF now = Horizon(program) THEN FirstTime(program) ELSE now
        shift == now - base
        moved == lottery.last_draw_time - shift
        floor == FirstTime(program) - Period(program)
    IN /\ now' = NextPoint(program, base)
       /\ lottery' = [lottery EXCEPT !.last_draw_time =
                         IF shift = 0 THEN @
                         ELSE IF moved < floor THEN floor ELSE moved]
       /\ last' = [op |-> "tick", err |-> "Ok", args |-> <<>>]
       /\ UNCHANGED <<program, token_account, accrued, paid, steps>>

BuyLive ==
    /\ \E numbers \in ValidTickets :
          /\ Len(numbers) = Len(lottery.last_draw_numbers)
          /\ Commit("buy_ticket", [amount |-> 0, valid |-> TRUE],
                    buy_ticket(lottery, token_account, now, numbers, 0, TRUE, TRUE),
                    0, FALSE)

DrawLive ==
    /\ \E random_value \in DrawDigests :
          Commit("draw", <<>>, draw(lottery, now, random_value), 0, steps < MaxOps)

NextLive ==
    \/ TickLive
    \/ BuyLive
    \/ DrawLive

InitLive ==
    /\ program \in {"super_lotto", "three_lotto"}
    /\ now = FirstTime(program)
    /\ lottery = IF program = "super_lotto" THEN super_initialize(0)
                 ELSE three_initialize(0)
    /\ token_account = 0
    /\ accrued = 0
    /\ paid = 0
    /\ steps = 0
    /\ last = [op |-> "initialize", err |-> "Ok", args |-> <<>>]

\* time keeps advancing; a purchase that would succeed and a draw that would
\* succeed, when they are possible again and again, are eventually submitted
FairLive ==
    /\ WF_vars(TickLive)
    /\ SF_vars(BuyLive /\ last'.err = "Ok")
    /\ SF_vars(DrawLive /\ last'.err = "Ok")

SpecLive == InitLive /\ [][NextLive]_vars /\ FairLive

-----------------------------------------------------------------------------
(* The claims *)

IsInstant == program = "instant_lotto"
IsSuper == program = "super_lotto"
IsThree == program = "three_lotto"
\* the last instruction was `op` and it succeeded
Did(op) == last.op = op /\ last.err = "Ok"

RECURSIVE SumSeq(_)
SumSeq(q) == IF q = <<>> THEN 0 ELSE Head(q) + SumSeq(Tail(q))

\* seconds elapsed since the start of the current UTC day (clock times >= 0)
SecondsOfDay(t) == t - (t \div 86400) * 86400

\* C1: instant lottery: in every reachable state the prize liability is at
\* most the pool, prize_amount <= pool_amount.
C1_PrizeWithinPool ==
    IsInstant => lottery.prize_amount <= lottery.pool_amount

\* C2: weekly and 3D: the tokens moved out of the lottery token account by
\* successful transfer_token calls never exceed the liability accrued by
\* successful update_prize_amount calls.
C2_NeverOverPaid ==
    (IsSuper \/ IsThree) => paid <= accrued

\* C3: weekly and 3D: a transfer_token whose total_amount differs from the
\* sum of its transfers fails, moves no token and leaves the account as it
\* was.
C3_MismatchedTotalFails ==
    [][ (last'.op = "transfer_token"
          /\ SumSeq(last'.args.transfers) # last'.args.total_amount)
        => (last'.err # "Ok" /\ lottery' = lottery /\ token_account' = token_account)
      ]_vars

\* the funds the lottery holds: pool_amount in the instant lottery, the amount
\* of the lottery token account in the weekly and 3D lotteries (whose account
\* has no pool field)
Pool == IF IsInstant THEN lottery.pool_amount ELSE token_account

\* C4: a successful purchase of amount a (play, buy_ticket) leaves the pool at
\* its value before the call plus exactly a.
C4_PurchaseCreditsPool ==
    [][ (last'.op \in {"play", "buy_ticket"} /\ last'.err = "Ok")
        => /\ Pool' = Pool + last'.args.amount
           /\ token_account' = token_account + last'.args.amount
      ]_vars

C4_Witness ==
    IsInstant /\ Did("play") /\ last.args.amount = 100 /\ lottery.pool_amount = 150

\* C5: a successful play of `amount` whose three tier indices all equal t adds
\* exactly floor(amount * multipliers[t] * 101 / 100) to prize_amount, and one
\* whose indices are not all equal has multiplier 0 and adds nothing; amount
\* 100 at multiplier 5 adds 505.
C5_PrizeOfPlay ==
    [][ (IsInstant /\ last'.op = "play" /\ last'.err = "Ok")
        => LET e == last'.args
               n == e.numbers
               won == n[1] = n[2] /\ n[2] = n[3]
           IN /\ e.win_multiplier = IF won THEN lottery.multipliers[n[1]] ELSE 0
              /\ lottery'.prize_amount - lottery.prize_amount
                   = IF won THEN (e.amount * lottery.multipliers[n[1]] * 101) \div 100
                            ELSE 0
              /\ (e.amount = 100 /\ e.win_multiplier = 5)
                   => lottery'.prize_amount = lottery.prize_amount + 505
      ]_vars

C5_Witness ==
    /\ IsInstant /\ Did("play")
    /\ last.args.amount = 100 /\ last.args.win_multiplier = 5
    /\ lottery.prize_amount = 505

\* C6: for a reduced value v in [0, total_weight) the tier is the 1-based index
\* of the first boundary strictly greater than v; with the boundaries of
\* initialize, 0 and 4659 map to tier 1, 4660 to tier 2 and 9999 to tier 5.
C6_TierOfValue ==
    (IsInstant /\ Did("play"))
    => LET v == last.args.randoms[1] % lottery.total_weight
           i == last.args.numbers[1]
           w == lottery.weight_ranges
       IN /\ i \in 1..5
          /\ v < w[i]
          /\ \A j \in 1..(i - 1) : w[j] <= v
          /\ v = 0 => i = 1
          /\ v = 4659 => i = 1
          /\ v = 4660 => i = 2
          /\ v = 9999 => i = 5

C6_Witness ==
    /\ IsInstant /\ Did("play")
    /\ last.args.randoms[1] = 14660 /\ last.args.numbers[1] = 2

\* C7: the numbers of a weekly draw are six pairwise distinct red numbers in
\* 1..33 and a seventh number in 1..16, those of a 3D draw three numbers in
\* 1..33; last_draw_numbers is all zeros until the first draw.
C7_DrawNumbersInRange ==
    LET n == lottery.last_draw_numbers IN
    /\ IsSuper =>
         IF Did("draw")
         THEN /\ \A i \in 1..6 : n[i] >= 1 /\ n[i] <= 33
              /\ \A i \in 1..6 : \A j \in 1..6 : i # j => n[i] # n[j]
              /\ n[7] >= 1 /\ n[7] <= 16
         ELSE n = <<0, 0, 0, 0, 0, 0, 0>>
    /\ IsThree =>
         IF Did("draw")
         THEN Len(n) = 3 /\ \A i \in 1..3 : n[i] >= 1 /\ n[i] <= 33
         ELSE n = <<0, 0, 0>>

C7_Witness ==
    /\ IsSuper /\ Did("draw")
    /\ last.args.random_value = <<32, 65, 32, 65, 0, 33, 255>>
    /\ lottery.last_draw_numbers = <<33, 1, 2, 3, 4, 5, 16>>

\* C8: a weekly draw on an unlocked lottery succeeds at 0 and at 600 seconds
\* since the start of the UTC day (and anywhere between), and fails with
\* InvalidDrawTime beyond 600 seconds, changing nothing.
C8_DrawWindowInclusive ==
    [][ (IsSuper /\ last'.op = "draw" /\ ~lottery.is_locked)
        => LET s == SecondsOfDay(now)
           IN /\ (s >= 0 /\ s <= 600)
                   => /\ last'.err = "Ok"
                      /\ lottery'.is_locked
                      /\ lottery'.last_draw_time = now
              /\ s > 600
                   => /\ last'.err = "InvalidDrawTime"
                      /\ lottery' = lottery
                      /\ token_account' = token_account
      ]_vars

C8_Witness ==
    /\ IsSuper /\ last.op = "draw" /\ last.err = "InvalidDrawTime"
    /\ SecondsOfDay(now) = 601 /\ ~lottery.is_locked

\* C9 as stated: a weekly draw succeeds only at fewer than 600 seconds since
\* the start of the day; a draw at exactly 600 seconds is rejected.
C9_DrawWindowHalfOpen ==
    (IsSuper /\ Did("draw")) => SecondsOfDay(now) < 600

\* C9 as amended: a weekly draw succeeds only within the closed interval
\* [0, 600] of seconds since the start of the day, and a draw outside it is
\* the one rejected with InvalidDrawTime; the draw at exactly 600 is taken.
C9_DrawWindowClosed ==
    /\ (IsSuper /\ Did("draw"))
         => /\ SecondsOfDay(now) >= 0 /\ SecondsOfDay(now) <= 600
            /\ lottery.last_draw_time = now
    /\ (IsSuper /\ last.op = "draw" /\ last.err = "InvalidDrawTime")
         => SecondsOfDay(now) > 600

C9_Witness ==
    /\ IsSuper /\ Did("draw") /\ SecondsOfDay(now) = 600
    /\ lottery.is_locked /\ lottery.last_draw_time = now

\* a successful weekly draw at T = now sets is_locked and last_draw_time
C10_DrawLocks ==
    (IsSuper /\ last'.op = "draw" /\ last'.err = "Ok")
    => lottery'.is_locked /\ lottery'.last_draw_time = now

\* C10 as stated: a successful weekly draw at T locks the lottery; a
\* buy_ticket at t with t - T < 600 fails with LotteryLocked (InvalidTokenMint
\* when the buyer's account has another mint, which is checked first) and
\* leaves it locked; an otherwise valid buy_ticket at t - T >= 600, exactly 600
\* included, succeeds and sets is_locked = false.
C10_UnlockFrom600 ==
    [][ /\ C10_DrawLocks
        /\ (IsSuper /\ last'.op = "buy_ticket" /\ lottery.is_locked)
           => IF now - lottery.last_draw_time < 600
              THEN /\ last'.err \in {"LotteryLocked", "InvalidTokenMint"}
                   /\ lottery' = lottery
              ELSE last'.args.valid => (last'.err = "Ok" /\ ~lottery'.is_locked)
      ]_vars

\* C10 as amended: the lock holds through t - T = 600: a buy_ticket at
\* t - T <= 600 fails with LotteryLocked (InvalidTokenMint when the buyer's
\* account has another mint) and leaves the lottery locked; an otherwise valid
\* buy_ticket at t - T > 600 succeeds and sets is_locked = false, and no
\* buy_ticket at t - T > 600 is refused as locked.
C10_UnlockAfter600 ==
    [][ /\ C10_DrawLocks
        /\ (IsSuper /\ last'.op = "buy_ticket" /\ lottery.is_locked)
           => IF now - lottery.last_draw_time <= 600
              THEN /\ last'.err \in {"LotteryLocked", "InvalidTokenMint"}
                   /\ lottery' = lottery
              ELSE /\ last'.args.valid => (last'.err = "Ok" /\ ~lottery'.is_locked)
                   /\ last'.err # "LotteryLocked"
      ]_vars

C10_Witness ==
    /\ IsSuper /\ Did("buy_ticket") /\ ~lottery.is_locked
    /\ now - lottery.last_draw_time = 601
    /\ lottery.last_draw_numbers # <<0, 0, 0, 0, 0, 0, 0>>

\* minute of the hour of a clock time >= 0
MinuteOfHour(t) == (t \div 60) % 60

\* C11: a 3D draw at time t succeeds exactly when the minute of the hour of t
\* is at most 5, t - last_draw_time >= 3300 and is_locked is false; a
\* successful draw sets is_locked = true and last_draw_time = t; and while the
\* lottery is locked with t - last_draw_time <= 300 no instruction unlocks it.
C11_ThreeDrawCondition ==
    [][ IsThree =>
          /\ last'.op = "draw" =>
                /\ (last'.err = "Ok") <=>
                       (/\ MinuteOfHour(now) <= 5
                        /\ now - lottery.last_draw_time >= 3300
                        /\ ~lottery.is_locked)
                /\ last'.err = "Ok" =>
                       (lottery'.is_locked /\ lottery'.last_draw_time = now)
                /\ last'.err # "Ok" => lottery' = lottery
          /\ (lottery.is_locked /\ now - lottery.last_draw_time <= 300
                /\ last'.op # "tick")
             => lottery'.is_locked
      ]_vars

\* a 3D draw inside the window on an unlocked lottery, refused because only
\* 3299 seconds have passed since the previous draw
C11_Witness ==
    /\ IsThree /\ last.op = "draw" /\ last.err = "DrawTooEarly"
    /\ ~lottery.is_locked /\ MinuteOfHour(now) <= 5
    /\ now - lottery.last_draw_time = 3299

\* C12: a 3D buy_ticket at a time whose minute of the hour is at most 5 fails
\* with DrawWindowActive whatever the lock state, the amount and the numbers,
\* and leaves the lottery account and the token account as they were.
C12_NoPurchaseInWindow ==
    [][ (IsThree /\ last'.op = "buy_ticket" /\ MinuteOfHour(now) <= 5)
        => /\ last'.err = "DrawWindowActive"
           /\ lottery' = lottery
           /\ token_account' = token_account
      ]_vars

\* an otherwise valid purchase in minute 5, on a lottery whose lock period
\* has elapsed: refused, and the lottery stays locked
C12_Witness ==
    /\ IsThree /\ last.op = "buy_ticket" /\ last.err = "DrawWindowActive"
    /\ last.args.valid /\ MinuteOfHour(now) = 5
    /\ lottery.is_locked /\ now - lottery.last_draw_time > 300

\* C13 as stated: in the 3D lottery no buy_ticket changes is_locked from true
\* to false.
C13_ThreeNeverUnlocks ==
    [][ (IsThree /\ last'.op = "buy_ticket" /\ lottery.is_locked)
        => lottery'.is_locked
      ]_vars

\* C13 as amended: both lotteries unlock by purchase.  A buy_ticket changes
\* is_locked from true to false exactly when it succeeds on a locked lottery,
\* which takes t - last_draw_time > LOCK_DURATION (600 weekly, 300 in 3D) and,
\* in 3D, a time outside the draw window; an otherwise valid 3D buy_ticket
\* outside the window at t - last_draw_time > 300 succeeds and unlocks.
C13_BothUnlockByPurchase ==
    [][ ((IsSuper \/ IsThree) /\ last'.op = "buy_ticket" /\ lottery.is_locked)
        => /\ ~lottery'.is_locked <=> last'.err = "Ok"
           /\ last'.err = "Ok" =>
                 /\ now - lottery.last_draw_time > (IF IsSuper THEN 600 ELSE 300)
                 /\ IsThree => MinuteOfHour(now) > 5
           /\ (IsThree /\ last'.args.valid /\ MinuteOfHour(now) > 5
                 /\ now - lottery.last_draw_time > 300)
              => last'.err = "Ok"
      ]_vars

\* a 3D purchase 301 seconds after the draw that left the lottery unlocked
C13_Witness ==
    /\ IsThree /\ Did("buy_ticket") /\ ~lottery.is_locked
    /\ lottery.last_draw_numbers # <<0, 0, 0>>
    /\ now - lottery.last_draw_time = 301

\* C14: a 3D draw that fails names the violated condition: outside the window
\* it fails with InvalidDrawTime; inside the window less than 3300 seconds
\* after the previous draw with DrawTooEarly; inside the window with the
\* interval satisfied on a locked lottery with AlreadyDrawn.
C14_DistinctDrawErrors ==
    [][ (IsThree /\ last'.op = "draw")
        => /\ MinuteOfHour(now) > 5 => last'.err = "InvalidDrawTime"
           /\ (MinuteOfHour(now) <= 5 /\ now - lottery.last_draw_time < 3300)
              => last'.err = "DrawTooEarly"
           /\ (MinuteOfHour(now) <= 5 /\ now - lottery.last_draw_time >= 3300
                 /\ lottery.is_locked)
              => last'.err = "AlreadyDrawn"
      ]_vars

\* C15: a weekly or 3D update_prize_amount(a) at time t succeeds exactly when
\* is_locked is true, t - last_draw_time <= LOCK_DURATION (600 weekly, 300 in
\* 3D) and a > 0; on success last_prize_amount grows by exactly a and nothing
\* else changes; otherwise it fails with PrizeUpdateWindowClosed (lock or
\* window) or InvalidPrizeAmount (a = 0) and changes nothing.
C15_UpdatePrizeCondition ==
    [][ ((IsSuper \/ IsThree) /\ last'.op = "update_prize_amount")
        => LET a == last'.args.prize_amount
               open == /\ lottery.is_locked
                       /\ now - lottery.last_draw_time
                             <= (IF IsSuper THEN 600 ELSE 300)
           IN /\ (last'.err = "Ok") <=> (open /\ a > 0)
              /\ last'.err = "Ok" =>
                    lottery' = [lottery EXCEPT !.last_prize_amount = @ + a]
              /\ last'.err # "Ok" =>
                    /\ last'.err = (IF open THEN "InvalidPrizeAmount"
                                    ELSE "PrizeUpdateWindowClosed")
                    /\ lottery' = lottery
      ]_vars

C17_SettleNotIdempotent ==
    [][ IsInstant =>
          /\ (/\ Did("claim_prize")
               /\ last'.op = "claim_prize"
               /\ last'.args = last.args
               /\ lottery.prize_amount
                    < last.args.prize_amount + last.args.fee_amount)
             => /\ last'.err = "InsufficientPrize"
                /\ lottery' = lottery
                /\ token_account' = token_account
                /\ paid' = paid
          /\ paid' <= accrued'
      ]_vars

\* the second of two identical claims of 60 + 1, refused for the 40 the first
\* one left of a liability of 101
C17_Witness ==
    /\ IsInstant /\ last.op = "claim_prize" /\ last.err = "InsufficientPrize"
    /\ last.args.prize_amount = 60 /\ last.args.fee_amount = 1
    /\ paid = 61 /\ accrued = 101 /\ lottery.prize_amount = 40

\* C18: a successful weekly or 3D transfer_token lowers last_prize_amount
\* once, by total_amount, however many recipients it pays, and changes no
\* other field of the lottery account.
C18_DebitOnceByTotal ==
    [][ ((IsSuper \/ IsThree) /\ last'.op = "transfer_token" /\ last'.err = "Ok")
        => lottery' = [lottery EXCEPT
                         !.last_prize_amount = @ - last'.args.total_amount]
      ]_vars

\* a transfer_token of total 2 to two recipients that used up a liability of 2
C18_Witness ==
    /\ (IsSuper \/ IsThree) /\ Did("transfer_token")
    /\ Len(last.args.transfers) = 2 /\ last.args.total_amount = 2
    /\ accrued = 2 /\ lottery.last_prize_amount = 0 /\ lottery.is_locked

\* C19: batched settlement is all or nothing: a transfer_token one of whose
\* legs fails (the recipient account missing, the token transfer rejected,
\* or the lottery token account short of the amounts) fails; a transfer_token
\* that fails leaves last_prize_amount as it was and no leg paid; one that
\* succeeds has paid every leg and debited the liability.
C19_BatchAllOrNothing ==
    [][ ((IsSuper \/ IsThree) /\ last'.op = "transfer_token")
        => LET a == last'.args
               leg_fails == a.fault # "none" \/ SumSeq(a.transfers) > token_account
           IN /\ leg_fails => last'.err # "Ok"
              /\ last'.err # "Ok" =>
                    /\ lottery' = lottery
                    /\ token_account' = token_account
                    /\ paid' = paid
              /\ last'.err = "Ok" =>
                    /\ token_account' = token_account - SumSeq(a.transfers)
                    /\ lottery'.last_prize_amount
                         = lottery.last_prize_amount - a.total_amount
      ]_vars

\* a transfer_token to two recipients whose second transfer was rejected
\* after the first had gone through: nothing is paid, the liability is whole
C19_Witness ==
    /\ (IsSuper \/ IsThree) /\ last.op = "transfer_token"
    /\ last.err = "TokenTransferFailed" /\ last.args.fault = "transfer"
    /\ last.args.transfers = <<1, 1>> /\ token_account >= 2
    /\ paid = 0 /\ lottery.last_prize_amount = 2 /\ accrued = 2

\* the tier of a hash slice under the boundaries w: the first one above the
\* slice reduced modulo the total weight tw
TierOfSlice(r, tw, w) ==
    CHOOSE i \in 1..5 : (r % tw) < w[i] /\ \A j \in 1..(i - 1) : w[j] <= (r % tw)

\* C20: instant play is overflow-safe and atomic: a play that passes the
\* lock, minimum-bet and token-transfer steps and in which pool_amount +
\* amount, play_times + 1, amount * multiplier, amount * multiplier * 101 or
\* prize_amount + prize exceeds u64::MAX fails with ArithmeticOverflow; a play
\* that fails so leaves pool_amount, play_times, prize_amount and the token
\* account at their values before the call; a play that succeeds adds the
\* exact amounts, and no counter ever leaves 0..u64::MAX.
C20_PlayOverflowSafe ==
    [][ (IsInstant /\ last'.op = "play")
        => LET a == last'.args.amount
               r == last'.args.randoms
               t == [i \in 1..3 |->
                       TierOfSlice(r[i], lottery.total_weight, lottery.weight_ranges)]
               m == IF t[1] = t[2] /\ t[2] = t[3] THEN lottery.multipliers[t[1]] ELSE 0
               prize == (a * m * 101) \div 100
               overflow == \/ lottery.pool_amount + a > U64_MAX
                           \/ lottery.play_times + 1 > U64_MAX
                           \/ m > 0 /\ a * m > U64_MAX
                           \/ m > 0 /\ a * m * 101 > U64_MAX
                           \/ m > 0 /\ lottery.prize_amount + prize > U64_MAX
               passes == /\ ~lottery.locked
                         /\ a >= lottery.min_bet
                         /\ last'.args.transfer_ok
                         /\ token_account + a <= U64_MAX
           IN /\ passes => ((last'.err = "ArithmeticOverflow") <=> overflow)
              /\ passes => ((last'.err = "Ok") <=> ~overflow)
              /\ last'.err # "Ok" =>
                    (lottery' = lottery /\ token_account' = token_account)
              /\ last'.err = "Ok" =>
                    /\ lottery'.pool_amount = lottery.pool_amount + a
                    /\ lottery'.play_times = lottery.play_times + 1
                    /\ lottery'.prize_amount = lottery.prize_amount + prize
              /\ lottery'.pool_amount \in 0..U64_MAX
              /\ lottery'.play_times \in 0..U64_MAX
              /\ lottery'.prize_amount \in 0..U64_MAX
      ]_vars

\* a winning play of 100 at multiplier 5 on a liability 504 short of
\* u64::MAX: the prize of 505 does not fit, and the pool and the play count,
\* raised earlier in the call, are at their old values
C20_Witness ==
    /\ IsInstant /\ last.op = "play" /\ last.err = "ArithmeticOverflow"
    /\ last.args.amount = 100 /\ last.args.randoms = <<4660, 14660, 4660>>
    /\ lottery.prize_amount = U64_MAX - 504
    /\ lottery.pool_amount = 1000 /\ lottery.play_times = 0
    /\ token_account = 1000

\* C21: weekly and 3D update_prize_amount(a) uses checked arithmetic: a call
\* that passes the lock, window and a > 0 checks with last_prize_amount + a
\* above u64::MAX fails with an arithmetic error and leaves last_prize_amount
\* unchanged; last_prize_amount never wraps (no successful call lowers it).
C21_UpdatePrizeChecked ==
    [][ ((IsSuper \/ IsThree) /\ last'.op = "update_prize_amount")
        => LET a == last'.args.prize_amount
               reaches_add == /\ lottery.is_locked
                              /\ now - lottery.last_draw_time
                                    <= (IF IsSuper THEN 600 ELSE 300)
                              /\ a > 0
           IN /\ (reaches_add /\ lottery.last_prize_amount + a > U64_MAX)
                 => /\ last'.err \in {"ArithmeticError", "ArithmeticOverflow"}
                    /\ lottery'.last_prize_amount = lottery.last_prize_amount
              /\ lottery'.last_prize_amount >= lottery.last_prize_amount
      ]_vars

C23_TicketRule ==
    [][ ((IsSuper \/ IsThree) /\ last'.op = "buy_ticket")
        => LET a == last'.args
               n == a.numbers
               accepted ==
                   IF IsSuper
                   THEN /\ \A i \in 1..6 : n[i] >= 1 /\ n[i] <= 33
                        /\ \A i \in 1..6 : \A j \in 1..6 : i # j => n[i] # n[j]
                        /\ n[7] >= 1 /\ n[7] <= 16
                   ELSE \A i \in 1..3 : n[i] >= 1 /\ n[i] <= 33
               reaches_validation ==
                   /\ a.fault # "account"
                   /\ lottery.is_locked =>
                         now - lottery.last_draw_time > (IF IsSuper THEN 600 ELSE 300)
                   /\ IsThree => MinuteOfHour(now) > 5
                   /\ a.amount >= lottery.min_purchase_amount
           IN /\ ~accepted =>
                    /\ last'.err # "Ok"
                    /\ lottery' = lottery
                    /\ token_account' = token_account
              /\ reaches_validation =>
                    ((last'.err = "InvalidTicketNumbers") <=> ~accepted)
              /\ (reaches_validation /\ accepted /\ a.fault = "none")
                    => (last'.err = "Ok" /\ token_account' = token_account + a.amount)
      ]_vars

\* a weekly ticket whose sixth red number repeats the first, both in range,
\* refused with nothing paid
C23_Witness ==
    /\ IsSuper /\ last.op = "buy_ticket" /\ last.err = "InvalidTicketNumbers"
    /\ last.args.numbers = <<1, 2, 3, 4, 5, 1, 16>>
    /\ last.args.amount = 2 /\ last.args.fault = "none"
    /\ token_account = 0

AdminOps ==
    {"draw", "update_prize_amount", "transfer_token", "withdraw_sol",
     "set_locked", "claim_prize"}

\* C24: only the configured authority changes state through the admin and
\* settlement instructions: a draw, update_prize_amount, transfer_token or
\* withdraw_sol (weekly, 3D) or a set_locked or claim_prize (instant) whose
\* authority account is not lottery.authority, or has not signed, fails and
\* leaves the lottery account and the token account as they were; an
\* instruction that changes them without the authority is a purchase (play,
\* buy_ticket).
C24_AuthorityOnly ==
    [][ (last'.op \in AdminOps \cup {"play", "buy_ticket"}
           /\ ~IsAuthority(last'.args.caller))
        => /\ last'.op \in AdminOps =>
                 /\ last'.err # "Ok"
                 /\ lottery' = lottery
                 /\ token_account' = token_account
                 /\ paid' = paid
           /\ (lottery' # lottery \/ token_account' # token_account)
                 => last'.op \in {"play", "buy_ticket"}
      ]_vars

\* an update_prize_amount signed by a player while the lottery is locked and
\* the update window open, refused on the key of its authority account
C24_Witness ==
    /\ IsSuper /\ last.op = "update_prize_amount" /\ last.err = "ConstraintHasOne"
    /\ last.args.caller = [key |-> "player", is_signer |-> TRUE]
    /\ lottery.is_locked /\ now - lottery.last_draw_time <= 600
    /\ lottery.last_prize_amount = 0

\* C25: the lifecycle has no terminal state: in the weekly and 3D lotteries,
\* when time keeps advancing and valid purchases and draw attempts keep being
\* submitted, from every reachable state a draw eventually succeeds again,
\* and a locked lottery is eventually unlocked.
C25_DrawRecurs ==
    /\ []<>(Did("draw"))
    /\ (lottery.is_locked ~> ~lottery.is_locked)

\* the third successful draw of a 3D lottery
C25_Witness ==
    /\ IsThree /\ Did("draw") /\ steps = 3
    /\ lottery.is_locked /\ lottery.last_draw_time = now

\* the k-th value tried for a slot whose digest byte is b: b mod 33 + 1, then
\* the values that follow it cyclically, 33 followed by 1
SlotCandidate(b, k) == (((b % 33) + k) % 33) + 1

\* C26: the numbers of a weekly draw are those of the reference algorithm for
\* every digest: slots 1..6 are filled left to right, slot i taking the first
\* of the values digest[i] mod 33 + 1, and then the next ones cyclically (33
\* wraps to 1), that no earlier slot of the draw holds; the seventh is
\* digest[7] mod 16 + 1 whatever the red slots hold; the search of a slot
\* ends after at most as many steps as there are earlier slots.
C26_NumbersAsReference ==
    (IsSuper /\ Did("draw"))
    => LET d == last.args.random_value
           n == lottery.last_draw_numbers
           earlier(i) == {n[j] : j \in 1..(i - 1)}
       IN /\ \A i \in 1..6 :
                \E k \in 0..(i - 1) :
                   /\ n[i] = SlotCandidate(d[i], k)
                   /\ n[i] \notin earlier(i)
                   /\ \A m \in 0..(k - 1) : SlotCandidate(d[i], m) \in earlier(i)
          /\ n[7] = (d[7] % 16) + 1

\* a digest whose red bytes collide in a chain through 33 and whose seventh
\* byte maps to 1, a number a red slot already holds
C26_Witness ==
    /\ IsSuper /\ Did("draw")
    /\ last.args.random_value = <<32, 65, 32, 65, 0, 33, 0>>
    /\ lottery.last_draw_numbers = <<33, 1, 2, 3, 4, 5, 1>>

\* C27: instant claim_prize checks the freshness of the timestamp it is
\* given: with a liability to claim from, a call with now - timestamp >= 300
\* is rejected with SignatureExpired and changes nothing, and a call that
\* succeeds has a timestamp less than 300 seconds old and not in the future.
C27_FreshTimestampOnly ==
    [][ (IsInstant /\ last'.op = "claim_prize")
        => LET age == now - last'.args.timestamp
           IN /\ (lottery.prize_amount > 0 /\ age >= 300)
                 => /\ last'.err = "SignatureExpired"
                    /\ lottery' = lottery
                    /\ token_account' = token_account
              /\ last'.err = "Ok" => (age >= 0 /\ age < 300)
      ]_vars

\* C28: weekly and 3D: is_locked changes from true to false only in a
\* successful buy_ticket; a draw on a locked lottery fails and changes
\* nothing, however long ago the last draw was; a successful draw starts from
\* an unlocked lottery and leaves it locked.  Hence the lottery is locked
\* from a successful draw until a successful buy_ticket, and a second draw
\* cannot succeed before one.
C28_UnlockOnlyByPurchase ==
    [][ (IsSuper \/ IsThree)
        => /\ (lottery.is_locked /\ ~lottery'.is_locked)
                 => (last'.op = "buy_ticket" /\ last'.err = "Ok")
           /\ (last'.op = "draw" /\ lottery.is_locked)
                 => (last'.err # "Ok" /\ lottery' = lottery)
           /\ (last'.op = "draw" /\ last'.err = "Ok")
                 => (~lottery.is_locked /\ lottery'.is_locked)
      ]_vars

\* a weekly draw at the opening of the window of the day after the last
\* draw, with no purchase in between: refused, the lottery still locked
C28_Witness ==
    /\ IsSuper /\ last.op = "draw" /\ last.err = "AlreadyDrawn"
    /\ lottery.is_locked /\ now - lottery.last_draw_time = 86400
    /\ SecondsOfDay(now) = 0

\* C29: weekly: no two successful draws of one instance fall in the same UTC
\* day: a draw that succeeds on a lottery that has drawn before is on a later
\* day (timestamp / 86400) than the draw before it.
C29_OneDrawPerDay ==
    [][ (/\ IsSuper /\ last'.op = "draw" /\ last'.err = "Ok"
         /\ lottery.last_draw_numbers # <<0, 0, 0, 0, 0, 0, 0>>)
        => (now \div 86400) > (lottery.last_draw_time \div 86400)
      ]_vars

\* a weekly draw attempted on the day of the last draw, after a purchase 601
\* seconds after that draw has unlocked the lottery: the window has closed
C29_Witness ==
    /\ IsSuper /\ last.op = "draw" /\ last.err = "InvalidDrawTime"
    /\ ~lottery.is_locked
    /\ lottery.last_draw_numbers # <<0, 0, 0, 0, 0, 0, 0>>
    /\ (now \div 86400) = (lottery.last_draw_time \div 86400)
    /\ now - lottery.last_draw_time = 601

\* C30: instant play is robust to the configuration set_locked has written:
\* a play on an unlocked lottery with amount >= min_bet whose token transfer
\* goes through either succeeds or fails with ArithmeticOverflow (so a play
\* past the lock and minimum-bet checks ends in one of these or in the
\* failure of its transfer, never in an unnamed fault), and the tier indices
\* of a play that succeeds lie in 1..5.
C30_PlayRobustToConfig ==
    [][ (/\ IsInstant /\ last'.op = "play"
         /\ ~lottery.locked /\ last'.args.amount >= lottery.min_bet)
        => /\ last'.err \in {"Ok", "ArithmeticOverflow", "TokenTransferFailed"}
           /\ last'.err = "Ok" => \A i \in 1..3 : last'.args.numbers[i] \in 1..5
      ]_vars

====
